---------------------------- MODULE Spec2Model ----------------------------
(***************************************************************************)
(* A model of the libretro adapter of src/src/lib.rs: the Retro instance   *)
(* behind LIBRETRO_INSTANCE, the process-wide ENVIRONMENT_CALLBACK, the    *)
(* RuntimeHandle a core gets during on_run, and the AudioVideoInfo         *)
(* builder.                                                                *)
(*                                                                         *)
(* Conventions.                                                            *)
(*  - A panic (a failed assert!, an unwrap() of None or Err) inside an     *)
(*    extern "C" entry point ends the process: `panic` holds its message   *)
(*    and no action is enabled afterwards.  Assignments made before the    *)
(*    panic are kept in the state, as the code makes them.                 *)
(*  - A callback pointer is 0 (null) or a non-zero number; an Option is    *)
(*    None or Some(x), the tuples << >> and <<x>>.                         *)
(*  - f64 values are rationals: frames_per_second is kept in hundredths    *)
(*    of a Hz (6000 is 60.0), audio_sample_rate in whole Hz.               *)
(*  - u32 and usize values that take part in the video size check are      *)
(*    little-endian tuples of four 16-bit limbs, so that products beyond   *)
(*    2^32 and the `as u32` truncation are computed as the hardware        *)
(*    computes them.                                                       *)
(*  - Whether a u32 multiplication that overflows wraps (release build)    *)
(*    or panics (overflow checks on) is left open: upload_video_frame      *)
(*    takes it as an input and both outcomes are explored.                 *)
(*  - A &str whose characters matter (a ROM extension) is the tuple of     *)
(*    its characters; other strings are opaque.                            *)
(*  - What the core answers (on_load_game, info(), the memory accessors)   *)
(*    and what the host answers (environment calls) are inputs of the      *)
(*    actions.                                                             *)
(*  - `last` records the entry point or handle method that ran last, what  *)
(*    it returned and the calls it made out of the adapter (to the host's  *)
(*    callbacks and to the core's hooks), in order.                        *)
(*                                                                         *)
(* Specifications.  Spec drives the entry points through frames; SpecHost  *)
(* drives the entry points outside of frames (system info, memory          *)
(* regions, load-game with every retro_game_info) and the system           *)
(* directory query; SpecCoreInfo and SpecAudioVideoInfo are the builder    *)
(* chains of CoreInfo and AudioVideoInfo; SpecAudioBudget is run after     *)
(* run of a loaded game whose audio requirement is not whole.              *)
(***************************************************************************)
EXTENDS Integers, Sequences, FiniteSets, TLC

VARIABLES
    LIBRETRO_INSTANCE,      \* NULL, or the Retro record the pointer refers to
    ENVIRONMENT_CALLBACK,   \* static mut Option<EnvironmentFn>
    handle,                 \* NULL, or the RuntimeHandle of the on_run in progress
    panic,                  \* "" or the message of the panic that ended the process
    frame,                  \* NULL, or what the run call in progress (or the one
                            \* that has just ended) has seen
    last,                   \* the last operation, its result and its outbound calls
    instances,              \* number of Retro objects constructed and not yet dropped
    INFO,                   \* static mut INFO of on_get_system_info: None or Some(CoreInfo)
    built_core_info,        \* the CoreInfo a builder chain has produced so far
    added_extensions,       \* the arguments of its supports_roms_with_extension calls
    built_av_info,          \* the AudioVideoInfo a builder chain has produced so far
    completed               \* the run calls completed since the game was loaded and
                            \* the i16 values uploaded in them (kept by
                            \* SpecAudioBudget, 0 and 0 elsewhere)

vars == <<LIBRETRO_INSTANCE, ENVIRONMENT_CALLBACK, handle, panic, frame, last,
          instances, INFO, built_core_info, added_extensions, built_av_info,
          completed>>

\* the values of the builder chains, and what every entry point other than
\* retro_get_system_info leaves alone
builders == <<built_core_info, added_extensions, built_av_info>>
statics == <<INFO, built_core_info, added_extensions, built_av_info, completed>>

\* a null pointer; a pointer to x is <<x>>
NULL == << >>
Box(x) == <<x>>
Deref(pointer) == pointer[1]
None == << >>
Some(x) == <<x>>
unwrap(option) == option[1]
NoPanic == ""

-----------------------------------------------------------------------------
(* Bounds of the model.                                                    *)

\* upload_audio_frame is not tried once the carried surplus plus the samples
\* uploaded in the call would exceed this
MaxAudioTotal == 3200

\* the number of supports_roms_with_extension calls in a builder chain, and the
\* largest width or height passed to an AudioVideoInfo builder
MaxExtensions == 3
MaxDim == 2

\* the number of consecutive run calls followed from the load of a game
MaxRuns == 6

-----------------------------------------------------------------------------
(* Fixed-width arithmetic.  A u32 or usize value in the video size check   *)
(* is a tuple of four 16-bit limbs, least significant first (usize is 64   *)
(* bits).                                                                  *)

Limb == 2^16

\* a number below 2^31 as limbs
ToLimbs(n) == <<n % Limb, n \div Limb, 0, 0>>

Zero == ToLimbs(0)

\* `x as u32`: the low 32 bits
AsU32(x) == <<x[1], x[2], 0, 0>>

FitsU32(x) == x[3] = 0 /\ x[4] = 0

\* the 32-bit product of two limbs, as its low and high limb (the partial
\* products stay below 2^31)
MulLimb(a, b) ==
    LET x == a * (b % 256)
        y == a * (b \div 256)
        t == x + (y % 256) * 256
    IN  [lo |-> t % Limb, hi |-> (t \div Limb) + (y \div 256)]

\* the exact 64-bit product of two u32 values
MulWide(a, b) ==
    LET p11 == MulLimb(a[1], b[1])
        p12 == MulLimb(a[1], b[2])
        p21 == MulLimb(a[2], b[1])
        p22 == MulLimb(a[2], b[2])
        t2 == p11.hi + p12.lo + p21.lo
        t3 == (t2 \div Limb) + p12.hi + p21.hi + p22.lo
        t4 == (t3 \div Limb) + p22.hi
    IN  <<p11.lo, t2 % Limb, t3 % Limb, t4 % Limb>>

\* a * b in 64 bits, for a usize a and a limb b
MulSmall(a, b) ==
    LET p1 == MulLimb(a[1], b)
        p2 == MulLimb(a[2], b)
        p3 == MulLimb(a[3], b)
        p4 == MulLimb(a[4], b)
        t2 == p1.hi + p2.lo
        t3 == (t2 \div Limb) + p2.hi + p3.lo
        t4 == (t3 \div Limb) + p3.hi + p4.lo
    IN  <<p1.lo, t2 % Limb, t3 % Limb, t4 % Limb>>

RECURSIVE GeqFrom(_, _, _)
GeqFrom(a, b, i) ==
    IF i = 0 THEN TRUE
    ELSE IF a[i] # b[i] THEN a[i] > b[i]
    ELSE GeqFrom(a, b, i - 1)

Geq(a, b) == GeqFrom(a, b, 4)

LowestNonZero(x) == CHOOSE i \in 1..4 : x[i] # 0 /\ \A j \in 1..(i-1) : x[j] = 0

\* x - 1, for x > 0
Pred(x) ==
    LET j == LowestNonZero(x)
    IN  [i \in 1..4 |-> IF i < j THEN Limb - 1 ELSE IF i = j THEN x[i] - 1 ELSE x[i]]

LowestNotFull(x) == CHOOSE i \in 1..4 : x[i] # Limb - 1 /\ \A j \in 1..(i-1) : x[j] = Limb - 1

\* x + 1, for x < 2^64 - 1
Succ(x) ==
    LET j == LowestNotFull(x)
    IN  [i \in 1..4 |-> IF i < j THEN 0 ELSE IF i = j THEN x[i] + 1 ELSE x[i]]

\* a * b in u32 arithmetic: the wrapped value, and whether it overflowed
MulU32(a, b) ==
    LET wide == MulWide(a, b)
    IN  [value |-> AsU32(wide), overflow |-> ~FitsU32(wide)]

-----------------------------------------------------------------------------
(* AudioVideoInfo and its builder.                                         *)

PixelFormats == {"ARGB1555", "ARGB8888", "RGB565"}
Regions == {"NTSC", "PAL"}

AudioVideoInfo_new ==
    [width |-> 0, height |-> 0, max_width |-> 0, max_height |-> 0,
     frames_per_second |-> 0, aspect_ratio |-> None,
     pixel_format |-> "RGB565", audio_sample_rate |-> 0, game_region |-> None]

max(a, b) == IF a >= b THEN a ELSE b

\* faulty variant: the maxima are overwritten
video_overwrites_max(self, width, height, frames_per_second, pixel_format) ==
    [self EXCEPT !.width = width,
                 !.height = height,
                 !.max_width = width,
                 !.max_height = height,
                 !.frames_per_second = frames_per_second,
                 !.pixel_format = pixel_format]

video(self, width, height, frames_per_second, pixel_format) ==
    [self EXCEPT !.width = width,
                 !.height = height,
                 !.max_width = max(self.max_width, width),
                 !.max_height = max(self.max_height, height),
                 !.frames_per_second = frames_per_second,
                 !.pixel_format = pixel_format]

max_video_size(self, max_width, max_height) ==
    [self EXCEPT !.max_width = max(self.max_width, max_width),
                 !.max_height = max(self.max_height, max_height)]

aspect_ratio(self, ratio) == [self EXCEPT !.aspect_ratio = Some(ratio)]

audio(self, sample_rate) == [self EXCEPT !.audio_sample_rate = sample_rate]

region(self, game_region) == [self EXCEPT !.game_region = Some(game_region)]

\* frames_per_second > 59.0, in hundredths of a Hz
infer_game_region_at_least_59(self) ==
    IF self.game_region # None
    THEN unwrap(self.game_region)
    ELSE IF self.frames_per_second >= 5900 THEN "NTSC" ELSE "PAL"

infer_game_region(self) ==
    IF self.game_region # None THEN unwrap(self.game_region)
    ELSE IF self.frames_per_second > 5900 THEN "NTSC" ELSE "PAL"

-----------------------------------------------------------------------------
(* Panic messages.                                                         *)

PanicNullInstance == "assertion failed: LIBRETRO_INSTANCE != null"
PanicLiveInstance == "assertion failed: LIBRETRO_INSTANCE == null"
PanicGameLoaded == "assertion failed: self.is_game_loaded == false"
PanicUnwrapNone == "called Option::unwrap() on a None value"
PanicUnwrapErr == "called Result::unwrap() on an Err value"
PanicVideoTwice == "You can only call upload_video_frame() once per frame!"
PanicVideoSmall == "Data too small to upload!"
PanicOverflow == "attempt to multiply with overflow"
PanicStereo == "Audio data must be in stereo!"
PanicAudioShort == "You need to upload at least {} audio samples each frame!"
PanicNulError == "called Result::unwrap() on an Err value: NulError"
PanicNullInfo == "assertion failed: info != null"
PanicUnreachable == "internal error: entered unreachable code"
PanicExpect == "ENVIRONMENT_GET_SYSTEM_DIRECTORY failed"
Segfault == "SIGSEGV"

-----------------------------------------------------------------------------
(* Outbound calls and results.                                             *)

Call(name, args) == [call |-> name, args |-> args]

Unit == "()"

\* what a method hands back: the receiver after it, Some(return value) or None
\* when it panicked, the calls it made, and the panic that cut it short
Outcome(self, ret, calls, msg) ==
    [self |-> self, ret |-> ret, calls |-> calls, panic |-> msg]

-----------------------------------------------------------------------------
(* The environment channel.                                                *)

\* faulty variant: a null pointer is stored like any other
set_callback_keeps_null(input) == Some(input)

set_callback(input) == IF input = 0 THEN None ELSE Some(input)

\* ok is the host's answer; with no callback registered the unwrap panics
\* before the host is called
call_environment(env, command, arg, ok) ==
    IF env = None
    THEN Outcome(env, None, <<>>, PanicUnwrapNone)
    ELSE Outcome(env, Some(IF ok THEN "Ok" ELSE "Err"),
                 <<Call("environment", <<command, arg>>)>>, NoPanic)

-----------------------------------------------------------------------------
(* Retro.                                                                  *)

Retro_new ==
    [video_refresh_callback |-> None,
     audio_sample_callback |-> None,
     audio_sample_batch_callback |-> None,
     input_poll_callback |-> None,
     input_state_callback |-> None,
     is_game_loaded |-> FALSE,
     av_info |-> AudioVideoInfo_new,
     total_audio_samples_uploaded |-> 0]

on_set_video_refresh(self, callback) ==
    [self EXCEPT !.video_refresh_callback = set_callback(callback)]

on_set_audio_sample(self, callback) ==
    [self EXCEPT !.audio_sample_callback = set_callback(callback)]

on_set_audio_sample_batch(self, callback) ==
    [self EXCEPT !.audio_sample_batch_callback = set_callback(callback)]

on_set_input_poll(self, callback) ==
    [self EXCEPT !.input_poll_callback = set_callback(callback)]

on_set_input_state(self, callback) ==
    [self EXCEPT !.input_state_callback = set_callback(callback)]

\* the SystemAvInfo the host's struct is filled with; 0 stands for 0.0
on_get_system_av_info(self) ==
    [base_width |-> self.av_info.width,
     base_height |-> self.av_info.height,
     max_width |-> self.av_info.max_width,
     max_height |-> self.av_info.max_height,
     aspect_ratio |-> IF self.av_info.aspect_ratio = None THEN 0
                      ELSE unwrap(self.av_info.aspect_ratio),
     fps |-> self.av_info.frames_per_second,
     sample_rate |-> self.av_info.audio_sample_rate]

on_get_region(self) == infer_game_region(self.av_info)

Success(av_info) == [tag |-> "Success", av_info |-> av_info]
Failed == [tag |-> "Failed"]

\* what CStr::from_ptr( pointer ).to_str().ok() gives for a C string that is or
\* is not UTF-8
to_str_ok(c_string) == IF c_string.utf8 THEN Some(c_string.text) ELSE None

\* the GameData on_load_game builds from the host's retro_game_info
GameData(path, data) == [path |-> path, data |-> data]

game_data(game_info) ==
    IF game_info = NULL
    THEN GameData(None, None)
    ELSE LET info == Deref(game_info)
             path == IF info.path = NULL THEN None ELSE to_str_ok(Deref(info.path))
             data == IF info.data = 0 /\ info.size = 0
                     THEN None
                     ELSE Some([data |-> info.data, size |-> info.size])
         IN  GameData(path, data)

\* faulty variants of on_load_game: without the is_game_loaded assertion; with
\* the pixel format read before the new AudioVideoInfo is stored; with the loaded
\* flag set before the core's answer is looked at
on_load_game_unguarded(self, env, game_info, result, ok) ==
    LET core_call == <<Call("core.on_load_game", <<game_data(game_info)>>)>>
    IN  IF result.tag = "Success"
        THEN LET stored == [self EXCEPT !.av_info = result.av_info]
                 pixel_format == stored.av_info.pixel_format
                 answer == call_environment(env, "SET_PIXEL_FORMAT", pixel_format, ok)
                 calls == core_call \o answer.calls
             IN  IF answer.panic # NoPanic
                 THEN Outcome(stored, None, calls, answer.panic)
                 ELSE IF answer.ret = Some("Err")
                 THEN Outcome(stored, None, calls, PanicUnwrapErr)
                 ELSE Outcome([stored EXCEPT !.is_game_loaded = TRUE], Some(TRUE),
                              calls, NoPanic)
        ELSE Outcome(self, Some(FALSE), core_call, NoPanic)

on_load_game_stale_format(self, env, game_info, result, ok) ==
    IF self.is_game_loaded # FALSE
    THEN Outcome(self, None, <<>>, PanicGameLoaded)
    ELSE LET core_call == <<Call("core.on_load_game", <<game_data(game_info)>>)>>
         IN  IF result.tag = "Success"
             THEN LET stored == [self EXCEPT !.av_info = result.av_info]
                      pixel_format == self.av_info.pixel_format
                      answer == call_environment(env, "SET_PIXEL_FORMAT", pixel_format, ok)
                      calls == core_call \o answer.calls
                  IN  IF answer.panic # NoPanic
                      THEN Outcome(stored, None, calls, answer.panic)
                      ELSE IF answer.ret = Some("Err")
                      THEN Outcome(stored, None, calls, PanicUnwrapErr)
                      ELSE Outcome([stored EXCEPT !.is_game_loaded = TRUE], Some(TRUE),
                                   calls, NoPanic)
             ELSE Outcome(self, Some(FALSE), core_call, NoPanic)

on_load_game_early_flag(self, env, game_info, result, ok) ==
    IF self.is_game_loaded # FALSE
    THEN Outcome(self, None, <<>>, PanicGameLoaded)
    ELSE LET core_call == <<Call("core.on_load_game", <<game_data(game_info)>>)>>
             flagged == [self EXCEPT !.is_game_loaded = TRUE]
         IN  IF result.tag = "Success"
             THEN LET stored == [flagged EXCEPT !.av_info = result.av_info]
                      pixel_format == stored.av_info.pixel_format
                      answer == call_environment(env, "SET_PIXEL_FORMAT", pixel_format, ok)
                      calls == core_call \o answer.calls
                  IN  IF answer.panic # NoPanic
                      THEN Outcome(stored, None, calls, answer.panic)
                      ELSE IF answer.ret = Some("Err")
                      THEN Outcome(stored, None, calls, PanicUnwrapErr)
                      ELSE Outcome(stored, Some(TRUE), calls, NoPanic)
             ELSE Outcome(flagged, Some(FALSE), core_call, NoPanic)

\* result is what the core's on_load_game returns, ok the host's answer to the
\* SET_PIXEL_FORMAT environment call
on_load_game(self, env, game_info, result, ok) ==
    IF self.is_game_loaded # FALSE
    THEN Outcome(self, None, <<>>, PanicGameLoaded)
    ELSE LET core_call == <<Call("core.on_load_game", <<game_data(game_info)>>)>>
         IN  IF result.tag = "Success"
             THEN LET stored == [self EXCEPT !.av_info = result.av_info]
                      pixel_format == stored.av_info.pixel_format
                      answer == call_environment(env, "SET_PIXEL_FORMAT", pixel_format, ok)
                      calls == core_call \o answer.calls
                  IN  IF answer.panic # NoPanic
                      THEN Outcome(stored, None, calls, answer.panic)
                      ELSE IF answer.ret = Some("Err")
                      THEN Outcome(stored, None, calls, PanicUnwrapErr)
                      ELSE Outcome([stored EXCEPT !.is_game_loaded = TRUE], Some(TRUE),
                                   calls, NoPanic)
             ELSE Outcome(self, Some(FALSE), core_call, NoPanic)

on_unload_game(self) ==
    IF self.is_game_loaded = FALSE
    THEN Outcome(self, Some(Unit), <<>>, NoPanic)
    ELSE Outcome(self, Some(Unit), <<Call("core.on_unload_game", <<>>)>>, NoPanic)

-----------------------------------------------------------------------------
(* on_run and the RuntimeHandle.                                           *)

BytesPerPixel(pixel_format) ==
    IF pixel_format \in {"ARGB1555", "RGB565"} THEN 2 ELSE 4

\* lines 408-427: the handle is built (each unwrap panics on None), input is
\* polled and the core's on_run is entered
\* faulty variant: the core's on_run starts before the host polls its input
on_run_enter_polls_late(self) ==
    IF \/ self.video_refresh_callback = None
       \/ self.input_state_callback = None
       \/ self.audio_sample_batch_callback = None
       \/ self.input_poll_callback = None
    THEN Outcome(NULL, None, <<>>, PanicUnwrapNone)
    ELSE Outcome(
             Box([video_refresh_callback |-> unwrap(self.video_refresh_callback),
                  input_state_callback |-> unwrap(self.input_state_callback),
                  audio_sample_batch_callback |-> unwrap(self.audio_sample_batch_callback),
                  upload_video_frame_already_called |-> FALSE,
                  audio_samples_uploaded |-> 0,
                  video_width |-> self.av_info.width,
                  video_height |-> self.av_info.height,
                  video_frame_bytes_per_pixel |-> BytesPerPixel(self.av_info.pixel_format)]),
             None,
             <<Call("core.on_run", <<>>), Call("input_poll", <<>>)>>,
             NoPanic)

on_run_enter(self) ==
    IF \/ self.video_refresh_callback = None
       \/ self.input_state_callback = None
       \/ self.audio_sample_batch_callback = None
    THEN Outcome(NULL, None, <<>>, PanicUnwrapNone)
    ELSE IF self.input_poll_callback = None
    THEN Outcome(NULL, None, <<>>, PanicUnwrapNone)
    ELSE Outcome(
             Box([video_refresh_callback |-> unwrap(self.video_refresh_callback),
                  input_state_callback |-> unwrap(self.input_state_callback),
                  audio_sample_batch_callback |-> unwrap(self.audio_sample_batch_callback),
                  upload_video_frame_already_called |-> FALSE,
                  audio_samples_uploaded |-> 0,
                  video_width |-> self.av_info.width,
                  video_height |-> self.av_info.height,
                  video_frame_bytes_per_pixel |-> BytesPerPixel(self.av_info.pixel_format)]),
             None,
             <<Call("input_poll", <<>>), Call("core.on_run", <<>>)>>,
             NoPanic)

\* (audio_sample_rate / frames_per_second) * 2.0 as an f64: NaN for 0.0 / 0.0,
\* +inf for x / 0.0 with x > 0, else the rational num / den
required_audio_sample_count_per_frame(av_info) ==
    IF av_info.frames_per_second = 0
    THEN [kind |-> IF av_info.audio_sample_rate = 0 THEN "NaN" ELSE "inf"]
    ELSE [kind |-> "finite",
          num |-> av_info.audio_sample_rate * 200,
          den |-> av_info.frames_per_second]

\* faulty variant: the budget is not enforced
AudioBudgetMet_skipped(total, required) == TRUE

\* total as f64 >= required: false against NaN and +inf
AudioBudgetMet(total, required) ==
    /\ required.kind = "finite"
    /\ total * required.den >= required.num

\* required as usize: truncation toward zero (only reached when the budget is met)
AsUsize(required) ==
    IF required.kind = "finite" THEN required.num \div required.den ELSE 0

\* faulty variant: the surplus is dropped instead of carried
on_run_return_no_carry(self, h) ==
    LET total == self.total_audio_samples_uploaded + h.audio_samples_uploaded
        added == [self EXCEPT !.total_audio_samples_uploaded = total]
        required == required_audio_sample_count_per_frame(self.av_info)
    IN  IF ~AudioBudgetMet(total, required)
        THEN Outcome(added, None, <<>>, PanicAudioShort)
        ELSE Outcome([added EXCEPT !.total_audio_samples_uploaded = 0],
                     Some(Unit), <<>>, NoPanic)

\* lines 429-436, after the core's on_run has returned
on_run_return(self, h) ==
    LET total == self.total_audio_samples_uploaded + h.audio_samples_uploaded
        added == [self EXCEPT !.total_audio_samples_uploaded = total]
        required == required_audio_sample_count_per_frame(self.av_info)
    IN  IF ~AudioBudgetMet(total, required)
        THEN Outcome(added, None, <<>>, PanicAudioShort)
        ELSE Outcome([added EXCEPT !.total_audio_samples_uploaded =
                                        total - AsUsize(required)],
                     Some(Unit), <<>>, NoPanic)

\* data.len() as u32 >= video_width * video_height * video_frame_bytes_per_pixel
VideoSizeOk(len, required) == Geq(AsU32(len), required)

\* faulty variant: the already-called flag is never set
upload_video_frame_flag_unset(h, len, checks) ==
    IF h.upload_video_frame_already_called # FALSE
    THEN Outcome(h, None, <<>>, PanicVideoTwice)
    ELSE LET area == MulU32(ToLimbs(h.video_width), ToLimbs(h.video_height))
             bytes == MulU32(area.value, ToLimbs(h.video_frame_bytes_per_pixel))
             pitch == MulU32(ToLimbs(h.video_width),
                             ToLimbs(h.video_frame_bytes_per_pixel))
         IN  IF checks /\ (area.overflow \/ bytes.overflow)
             THEN Outcome(h, None, <<>>, PanicOverflow)
             ELSE IF ~VideoSizeOk(len, bytes.value)
             THEN Outcome(h, None, <<>>, PanicVideoSmall)
             ELSE IF checks /\ pitch.overflow
             THEN Outcome(h, None, <<>>, PanicOverflow)
             ELSE Outcome(h, Some(Unit),
                          <<Call("video_refresh",
                                 <<len, h.video_width, h.video_height, pitch.value>>)>>,
                          NoPanic)

\* len is data.len(); checks says whether the build panics on u32 overflow
upload_video_frame(h, len, checks) ==
    IF h.upload_video_frame_already_called # FALSE
    THEN Outcome(h, None, <<>>, PanicVideoTwice)
    ELSE LET area == MulU32(ToLimbs(h.video_width), ToLimbs(h.video_height))
             bytes == MulU32(area.value, ToLimbs(h.video_frame_bytes_per_pixel))
             pitch == MulU32(ToLimbs(h.video_width),
                             ToLimbs(h.video_frame_bytes_per_pixel))
             called == [h EXCEPT !.upload_video_frame_already_called = TRUE]
         IN  IF checks /\ (area.overflow \/ bytes.overflow)
             THEN Outcome(h, None, <<>>, PanicOverflow)
             ELSE IF ~VideoSizeOk(len, bytes.value)
             THEN Outcome(h, None, <<>>, PanicVideoSmall)
             ELSE IF checks /\ pitch.overflow
             THEN Outcome(called, None, <<>>, PanicOverflow)
             ELSE Outcome(called, Some(Unit),
                          <<Call("video_refresh",
                                 <<len, h.video_width, h.video_height, pitch.value>>)>>,
                          NoPanic)

\* faulty variant: the parity of the slice is not looked at
upload_audio_frame_any_parity(h, n) ==
    Outcome([h EXCEPT !.audio_samples_uploaded = h.audio_samples_uploaded + n],
            Some(Unit),
            <<Call("audio_sample_batch", <<n \div 2>>)>>,
            NoPanic)

\* faulty variant: stereo frames are counted instead of i16 values
upload_audio_frame_counts_frames(h, n) ==
    IF n % 2 # 0
    THEN Outcome(h, None, <<>>, PanicStereo)
    ELSE Outcome([h EXCEPT !.audio_samples_uploaded = h.audio_samples_uploaded + (n \div 2)],
                 Some(Unit),
                 <<Call("audio_sample_batch", <<n \div 2>>)>>,
                 NoPanic)

\* n is data.len()
upload_audio_frame(h, n) ==
    IF n % 2 # 0
    THEN Outcome(h, None, <<>>, PanicStereo)
    ELSE Outcome([h EXCEPT !.audio_samples_uploaded = h.audio_samples_uploaded + n],
                 Some(Unit),
                 <<Call("audio_sample_batch", <<n \div 2>>)>>,
                 NoPanic)

-----------------------------------------------------------------------------
(* What the host and the core may pass in.                                 *)

\* callback pointers the host registers: null and one function
Pointers == {0, 1}

\* the AudioVideoInfo values a core answers on_load_game with: 60 fps at 48000 Hz
\* (1600 samples a frame), 60 fps at 48015 Hz (1600.5 samples a frame), and a
\* geometry whose byte size is 2^32 at 50 fps and 40000 Hz with an explicit region
GameConfigs ==
    { audio(video(AudioVideoInfo_new, 4, 2, 6000, "RGB565"), 48000),
      audio(video(AudioVideoInfo_new, 4, 2, 6000, "ARGB8888"), 48015),
      region(audio(video(AudioVideoInfo_new, 65536, 32768, 5000, "ARGB1555"), 40000),
             "NTSC") }

LoadGameResults == {Failed} \cup {Success(c) : c \in GameConfigs}

\* C strings a retro_game_info's path points to: UTF-8 or not
CStrings == {[utf8 |-> TRUE, text |-> "game.rom"], [utf8 |-> FALSE, text |-> "?"]}

GameInfo(path, data, size) == [path |-> path, data |-> data, size |-> size]

\* what the host passes to retro_load_game: a null pointer, or a retro_game_info
\* with a null or non-null path, a null or non-null data pointer and a size of
\* zero or not
GameInfos ==
    {NULL} \cup
    {Box(GameInfo(path, data, size)) :
        path \in {NULL} \cup {Box(c) : c \in CStrings},
        data \in Pointers,
        size \in {0, 16}}

\* lengths of the i16 slices a core uploads
AudioLens == {1, 800, 1500, 1600, 1700, 3200}

\* width * height * bytes-per-pixel without truncation
FrameBytes(h) ==
    MulSmall(MulWide(ToLimbs(h.video_width), ToLimbs(h.video_height)),
             h.video_frame_bytes_per_pixel)

\* lengths of the byte slices a core uploads: empty, the frame's size, and one
\* byte less and more than it
VideoLens(h) ==
    LET exact == FrameBytes(h)
    IN  {Zero, exact, Succ(exact)} \cup (IF exact = Zero THEN {} ELSE {Pred(exact)})

-----------------------------------------------------------------------------
(* The state machine.                                                      *)

Done(op, args, ret, calls) == [op |-> op, args |-> args, ret |-> ret, calls |-> calls]

\* no run call has completed yet
NoRuns == [runs |-> 0, uploaded |-> 0]

Init ==
    /\ LIBRETRO_INSTANCE = NULL
    /\ ENVIRONMENT_CALLBACK = None
    /\ handle = NULL
    /\ panic = NoPanic
    /\ frame = NULL
    /\ last = Done("start", <<>>, None, <<>>)
    /\ instances = 0
    /\ INFO = None
    /\ built_core_info = NULL
    /\ added_extensions = << >>
    /\ built_av_info = NULL
    /\ completed = NoRuns

\* the host calls in while the process is alive and no call is in progress
HostCalls == panic = NoPanic /\ handle = NULL

\* assert_ne!( LIBRETRO_INSTANCE, 0 as *mut _ ) fails
NullInstance(op, args) ==
    /\ LIBRETRO_INSTANCE = NULL
    /\ panic' = PanicNullInstance
    /\ last' = Done(op, args, None, <<>>)
    /\ frame' = NULL
    /\ UNCHANGED <<LIBRETRO_INSTANCE, ENVIRONMENT_CALLBACK, handle, instances, statics>>

\* an entry point that runs to its end on the live instance
Returns(op, args, self, ret) ==
    /\ LIBRETRO_INSTANCE' = Box(self)
    /\ last' = Done(op, args, Some(ret), <<>>)
    /\ frame' = NULL
    /\ UNCHANGED <<ENVIRONMENT_CALLBACK, handle, panic, instances, statics>>

\* an entry point whose method hands back an Outcome
Applies(op, args, out) ==
    /\ LIBRETRO_INSTANCE' = Box(out.self)
    /\ panic' = out.panic
    /\ last' = Done(op, args, out.ret, out.calls)
    /\ frame' = NULL
    /\ UNCHANGED <<ENVIRONMENT_CALLBACK, handle, instances, statics>>

\* faulty variant: the pointer is not compared with null
retro_init_unguarded ==
    /\ HostCalls
    /\ LIBRETRO_INSTANCE' = Box(Retro_new)
    /\ instances' = instances + 1
    /\ last' = Done("retro_init", <<>>, Some(Unit), <<>>)
    /\ frame' = NULL
    /\ UNCHANGED <<ENVIRONMENT_CALLBACK, handle, panic, statics>>

retro_init ==
    /\ HostCalls
    /\ IF LIBRETRO_INSTANCE # NULL
       THEN /\ panic' = PanicLiveInstance
            /\ UNCHANGED <<LIBRETRO_INSTANCE, instances>>
       ELSE /\ LIBRETRO_INSTANCE' = Box(Retro_new)
            /\ instances' = instances + 1
            /\ UNCHANGED panic
    /\ last' = Done("retro_init", <<>>,
                    IF LIBRETRO_INSTANCE # NULL THEN None ELSE Some(Unit), <<>>)
    /\ frame' = NULL
    /\ UNCHANGED <<ENVIRONMENT_CALLBACK, handle, statics>>

retro_deinit ==
    /\ HostCalls
    /\ \/ NullInstance("retro_deinit", <<>>)
       \/ /\ LIBRETRO_INSTANCE # NULL
          /\ LIBRETRO_INSTANCE' = NULL
          /\ instances' = instances - 1
          /\ last' = Done("retro_deinit", <<>>, Some(Unit), <<>>)
          /\ frame' = NULL
          /\ UNCHANGED <<ENVIRONMENT_CALLBACK, handle, panic, statics>>

retro_set_environment(callback) ==
    /\ HostCalls
    /\ ENVIRONMENT_CALLBACK' = set_callback(callback)
    /\ last' = Done("retro_set_environment", <<callback>>, Some(Unit), <<>>)
    /\ frame' = NULL
    /\ UNCHANGED <<LIBRETRO_INSTANCE, handle, panic, instances, statics>>

retro_set_video_refresh(callback) ==
    /\ HostCalls
    /\ \/ NullInstance("retro_set_video_refresh", <<callback>>)
       \/ /\ LIBRETRO_INSTANCE # NULL
          /\ Returns("retro_set_video_refresh", <<callback>>,
                     on_set_video_refresh(Deref(LIBRETRO_INSTANCE), callback), Unit)

retro_set_audio_sample(callback) ==
    /\ HostCalls
    /\ \/ NullInstance("retro_set_audio_sample", <<callback>>)
       \/ /\ LIBRETRO_INSTANCE # NULL
          /\ Returns("retro_set_audio_sample", <<callback>>,
                     on_set_audio_sample(Deref(LIBRETRO_INSTANCE), callback), Unit)

retro_set_audio_sample_batch(callback) ==
    /\ HostCalls
    /\ \/ NullInstance("retro_set_audio_sample_batch", <<callback>>)
       \/ /\ LIBRETRO_INSTANCE # NULL
          /\ Returns("retro_set_audio_sample_batch", <<callback>>,
                     on_set_audio_sample_batch(Deref(LIBRETRO_INSTANCE), callback), Unit)

retro_set_input_poll(callback) ==
    /\ HostCalls
    /\ \/ NullInstance("retro_set_input_poll", <<callback>>)
       \/ /\ LIBRETRO_INSTANCE # NULL
          /\ Returns("retro_set_input_poll", <<callback>>,
                     on_set_input_poll(Deref(LIBRETRO_INSTANCE), callback), Unit)

retro_set_input_state(callback) ==
    /\ HostCalls
    /\ \/ NullInstance("retro_set_input_state", <<callback>>)
       \/ /\ LIBRETRO_INSTANCE # NULL
          /\ Returns("retro_set_input_state", <<callback>>,
                     on_set_input_state(Deref(LIBRETRO_INSTANCE), callback), Unit)

retro_get_system_av_info ==
    /\ HostCalls
    /\ \/ NullInstance("retro_get_system_av_info", <<>>)
       \/ /\ LIBRETRO_INSTANCE # NULL
          /\ Returns("retro_get_system_av_info", <<>>, Deref(LIBRETRO_INSTANCE),
                     on_get_system_av_info(Deref(LIBRETRO_INSTANCE)))

retro_get_region ==
    /\ HostCalls
    /\ \/ NullInstance("retro_get_region", <<>>)
       \/ /\ LIBRETRO_INSTANCE # NULL
          /\ Returns("retro_get_region", <<>>, Deref(LIBRETRO_INSTANCE),
                     on_get_region(Deref(LIBRETRO_INSTANCE)))

\* result is the core's answer, ok the host's answer to the environment call,
\* game the host's pointer to a retro_game_info
retro_load_game(result, ok, game) ==
    /\ HostCalls
    /\ \/ NullInstance("retro_load_game", <<result, ok, game>>)
       \/ /\ LIBRETRO_INSTANCE # NULL
          /\ Applies("retro_load_game", <<result, ok, game>>,
                     on_load_game(Deref(LIBRETRO_INSTANCE), ENVIRONMENT_CALLBACK,
                                  game, result, ok))

retro_unload_game ==
    /\ HostCalls
    /\ \/ NullInstance("retro_unload_game", <<>>)
       \/ /\ LIBRETRO_INSTANCE # NULL
          /\ Applies("retro_unload_game", <<>>, on_unload_game(Deref(LIBRETRO_INSTANCE)))

\* retro_run up to the point where the core's on_run has been entered
retro_run ==
    /\ HostCalls
    /\ \/ NullInstance("retro_run", <<>>)
       \/ /\ LIBRETRO_INSTANCE # NULL
          /\ LET out == on_run_enter(Deref(LIBRETRO_INSTANCE))
             IN  /\ handle' = out.self
                 /\ panic' = out.panic
                 /\ last' = Done("retro_run", <<>>, out.ret, out.calls)
                 /\ frame' = IF out.panic # NoPanic THEN NULL
                             ELSE Box([carried |-> Deref(LIBRETRO_INSTANCE).total_audio_samples_uploaded,
                                       audio_passed |-> 0,
                                       video_refreshed |-> 0])
          /\ UNCHANGED <<LIBRETRO_INSTANCE, ENVIRONMENT_CALLBACK, instances, statics>>

\* the core is inside on_run and the process is alive
CoreRuns == panic = NoPanic /\ handle # NULL

\* the core calls handle.upload_video_frame with a slice of len bytes; checks is
\* the build's answer to a u32 overflow (a debug build panics, a release build
\* wraps), taken where the overflow happens
core_upload_video_frame ==
    /\ CoreRuns
    /\ \E len \in VideoLens(Deref(handle)), checks \in BOOLEAN :
          LET out == upload_video_frame(Deref(handle), len, checks)
          IN  /\ handle' = Box(out.self)
              /\ panic' = out.panic
              /\ last' = Done("upload_video_frame", <<len>>, out.ret, out.calls)
              /\ frame' = Box([Deref(frame) EXCEPT !.video_refreshed = @ + Len(out.calls)])
    /\ UNCHANGED <<LIBRETRO_INSTANCE, ENVIRONMENT_CALLBACK, instances, statics>>

\* the core calls handle.upload_audio_frame with a slice of n values
core_upload_audio_frame(n) ==
    /\ CoreRuns
    /\ Deref(frame).carried + Deref(frame).audio_passed + n <= MaxAudioTotal
    /\ LET out == upload_audio_frame(Deref(handle), n)
       IN  /\ handle' = Box(out.self)
           /\ panic' = out.panic
           /\ last' = Done("upload_audio_frame", <<n>>, out.ret, out.calls)
           /\ frame' = Box([Deref(frame) EXCEPT !.audio_passed =
                                IF out.panic = NoPanic THEN @ + n ELSE @])
    /\ UNCHANGED <<LIBRETRO_INSTANCE, ENVIRONMENT_CALLBACK, instances, statics>>

\* the core's on_run returns and retro_run runs to its end
core_on_run_returns ==
    /\ CoreRuns
    /\ LET out == on_run_return(Deref(LIBRETRO_INSTANCE), Deref(handle))
       IN  /\ LIBRETRO_INSTANCE' = Box(out.self)
           /\ panic' = out.panic
           /\ last' = Done("retro_run", <<>>, out.ret, out.calls)
    /\ handle' = NULL
    /\ UNCHANGED <<ENVIRONMENT_CALLBACK, frame, instances, statics>>

Next ==
    \/ retro_init
    \/ retro_deinit
    \/ \E callback \in Pointers : retro_set_environment(callback)
    \/ \E callback \in Pointers : retro_set_video_refresh(callback)
    \/ \E callback \in Pointers : retro_set_audio_sample(callback)
    \/ \E callback \in Pointers : retro_set_audio_sample_batch(callback)
    \/ \E callback \in Pointers : retro_set_input_poll(callback)
    \/ \E callback \in Pointers : retro_set_input_state(callback)
    \/ retro_get_system_av_info
    \/ retro_get_region
    \/ \E result \in LoadGameResults, ok \in BOOLEAN : retro_load_game(result, ok, NULL)
    \/ retro_unload_game
    \/ retro_run
    \/ core_upload_video_frame
    \/ \E n \in AudioLens : core_upload_audio_frame(n)
    \/ core_on_run_returns

\* the entry points and the handle's methods, as a host and a core drive them
\* through frames; the game image is left out here (a null retro_game_info),
\* every retro_game_info being passed in SpecHost below
Spec == Init /\ [][Next]_vars

-----------------------------------------------------------------------------
(* CoreInfo.  A &str is the tuple of its characters, so that the leading   *)
(* dot, the separator and the archive names are compared as the code       *)
(* compares them; NUL is the zero byte a CString cannot hold.              *)

NUL == "\\0"

CoreInfo_new(name, version) ==
    [library_name |-> name,
     library_version |-> version,
     supported_romfile_extensions |-> << >>,
     require_path_when_loading_roms |-> FALSE,
     allow_frontend_to_extract_archives |-> TRUE]

\* the arms of the match of lines 49-51
ArchiveExtensions ==
    { <<"g", "z">>, <<"x", "z">>,
      <<"z", "i", "p">>, <<"r", "a", "r">>, <<"7", "z">>, <<"t", "a", "r">>,
      <<"t", "g", "z">>, <<"t", "x", "z">>, <<"b", "z", "2">>,
      <<"t", "a", "r", ".", "g", "z">>, <<"t", "a", "r", ".", "b", "z", "2">>,
      <<"t", "a", "r", ".", "x", "z">> }

starts_with_dot(extension) == Len(extension) > 0 /\ extension[1] = "."

contains_nul(bytes) == \E i \in 1..Len(bytes) : bytes[i] = NUL

\* faulty variant: the archive flag follows the extension added last
supports_roms_with_extension_last_wins(self, extension) ==
    LET stripped == IF starts_with_dot(extension) THEN Tail(extension) ELSE extension
        string == self.supported_romfile_extensions
        vec == (IF string = << >> THEN string ELSE Append(string, "|")) \o stripped
    IN  IF contains_nul(vec)
        THEN Outcome(self, None, << >>, PanicNulError)
        ELSE Outcome([self EXCEPT !.supported_romfile_extensions = vec,
                                  !.allow_frontend_to_extract_archives =
                                      stripped \notin ArchiveExtensions],
                     Some(Unit), << >>, NoPanic)

\* faulty variant: every leading dot is removed
supports_roms_with_extension_all_dots(self, extension) ==
    LET first == IF starts_with_dot(extension) THEN Tail(extension) ELSE extension
        stripped == IF starts_with_dot(first) THEN Tail(first) ELSE first
        string == self.supported_romfile_extensions
        vec == (IF string = << >> THEN string ELSE Append(string, "|")) \o stripped
    IN  IF contains_nul(vec)
        THEN Outcome(self, None, << >>, PanicNulError)
        ELSE Outcome([self EXCEPT !.supported_romfile_extensions = vec,
                                  !.allow_frontend_to_extract_archives =
                                      IF stripped \in ArchiveExtensions THEN FALSE ELSE @],
                     Some(Unit), << >>, NoPanic)

\* the builder consumes self; CString::new( vec ).unwrap() panics when the
\* bytes hold a NUL
supports_roms_with_extension(self, extension) ==
    LET stripped == IF starts_with_dot(extension) THEN Tail(extension) ELSE extension
        string == self.supported_romfile_extensions
        vec == (IF string = << >> THEN string ELSE Append(string, "|")) \o stripped
    IN  IF contains_nul(vec)
        THEN Outcome(self, None, << >>, PanicNulError)
        ELSE Outcome([self EXCEPT !.supported_romfile_extensions = vec,
                                  !.allow_frontend_to_extract_archives =
                                      IF stripped \in ArchiveExtensions THEN FALSE ELSE @],
                     Some(Unit), << >>, NoPanic)

requires_path_when_loading_roms(self) ==
    [self EXCEPT !.require_path_when_loading_roms = TRUE]

-----------------------------------------------------------------------------
(* The entry points that do not take part in a frame: the memoized         *)
(* SystemInfo, the memory regions and the system directory query.          *)

\* faulty variant: info() is evaluated at every query
on_get_system_info_unmemoized(memo, info, core_info) ==
    IF info = 0
    THEN Outcome(memo, None, << >>, PanicNullInfo)
    ELSE Outcome(Some(core_info),
                 Some([library_name |-> core_info.library_name,
                       library_version |-> core_info.library_version,
                       valid_extensions |-> core_info.supported_romfile_extensions,
                       need_fullpath |-> core_info.require_path_when_loading_roms,
                       block_extract |-> core_info.allow_frontend_to_extract_archives = FALSE]),
                 <<Call("core.info", << >>)>>,
                 NoPanic)

\* memo is the static INFO, info the host's pointer to a retro_system_info and
\* core_info what B::info() returns if it is evaluated
on_get_system_info(memo, info, core_info) ==
    IF info = 0
    THEN Outcome(memo, None, << >>, PanicNullInfo)
    ELSE LET first == memo = None
             stored == IF first THEN Some(core_info) ELSE memo
             used == unwrap(stored)
         IN  Outcome(stored,
                     Some([library_name |-> used.library_name,
                           library_version |-> used.library_version,
                           valid_extensions |-> used.supported_romfile_extensions,
                           need_fullpath |-> used.require_path_when_loading_roms,
                           block_extract |-> used.allow_frontend_to_extract_archives = FALSE]),
                     IF first THEN <<Call("core.info", << >>)>> ELSE << >>,
                     NoPanic)

\* the ids of libretro_sys and the Core accessor memory_data dispatches each to
MemoryIds == {"MEMORY_SAVE_RAM", "MEMORY_RTC", "MEMORY_SYSTEM_RAM", "MEMORY_VIDEO_RAM"}

\* faulty variant: the RTC id is answered from the save RAM
memory_accessor_rtc_as_save(id) ==
    CASE id = "MEMORY_SAVE_RAM" -> "save_memory"
      [] id = "MEMORY_RTC" -> "save_memory"
      [] id = "MEMORY_SYSTEM_RAM" -> "system_memory"
      [] id = "MEMORY_VIDEO_RAM" -> "video_memory"

memory_accessor(id) ==
    CASE id = "MEMORY_SAVE_RAM" -> "save_memory"
      [] id = "MEMORY_RTC" -> "rtc_memory"
      [] id = "MEMORY_SYSTEM_RAM" -> "system_memory"
      [] id = "MEMORY_VIDEO_RAM" -> "video_memory"

\* core gives, for each accessor, None or Some(length of the slice it returns);
\* ret is that answer, tagged with the accessor asked
memory_data(self, id, core) ==
    IF id \notin MemoryIds
    THEN Outcome(self, None, << >>, PanicUnreachable)
    ELSE LET accessor == memory_accessor(id)
         IN  Outcome(self,
                     IF core[accessor] = None THEN None
                     ELSE Some([region |-> accessor, len |-> unwrap(core[accessor])]),
                     <<Call("core." \o accessor, << >>)>>,
                     NoPanic)

\* the pointer to a region is the Box of its name
on_get_memory_data(self, id, core) ==
    LET found == memory_data(self, id, core)
    IN  IF found.panic # NoPanic THEN found
        ELSE [found EXCEPT !.ret = Some(IF found.ret = None THEN NULL
                                        ELSE Box(unwrap(found.ret).region))]

on_get_memory_size(self, id, core) ==
    LET found == memory_data(self, id, core)
    IN  IF found.panic # NoPanic THEN found
        ELSE [found EXCEPT !.ret = Some(IF found.ret = None THEN 0
                                        ELSE unwrap(found.ret).len)]

\* answer is what the host does with GET_SYSTEM_DIRECTORY: whether it returns
\* true, and the pointer it writes.  The write goes through a shared reference
\* to an immutable local, so whether the code reads it back (reads) is up to
\* the build; CStr::from_ptr of a null pointer is undefined, and undefined is
\* what the build makes of it.
get_system_directory(env, answer, reads, undefined) ==
    LET called == call_environment(env, "GET_SYSTEM_DIRECTORY", "&ptr", answer.ok)
        ptr == IF reads THEN answer.directory ELSE NULL
    IN  IF called.panic # NoPanic
        THEN Outcome(env, None, called.calls, called.panic)
        ELSE IF called.ret = Some("Err")
        THEN Outcome(env, None, called.calls, PanicExpect)
        ELSE IF ptr = NULL
        THEN Outcome(env,
                     IF undefined.crash THEN None ELSE Some(undefined.value),
                     called.calls,
                     IF undefined.crash THEN Segfault ELSE NoPanic)
        ELSE Outcome(env, Some(to_str_ok(Deref(ptr))), called.calls, NoPanic)

\* the CoreInfo values B::info() may return
CoreInfos ==
    { supports_roms_with_extension(CoreInfo_new("core", "1.0"), <<".", "z", "i", "p">>).self,
      requires_path_when_loading_roms(
          supports_roms_with_extension(CoreInfo_new("core", "1.1"), <<"b", "i", "n">>).self) }

\* what a core's four accessors return: nothing (the trait's defaults), or a
\* save RAM, an empty system RAM and a video RAM
CoreMemories ==
    { [save_memory |-> None, rtc_memory |-> None,
       system_memory |-> None, video_memory |-> None],
      [save_memory |-> Some(8192), rtc_memory |-> None,
       system_memory |-> Some(0), video_memory |-> Some(16)] }

\* the ids a host may ask for
RequestedMemoryIds == MemoryIds \cup {"MEMORY_MASK"}

\* the host's answers to GET_SYSTEM_DIRECTORY
DirectoryAnswers ==
    { [ok |-> ok, directory |-> directory] :
        ok \in BOOLEAN,
        directory \in {NULL, Box([utf8 |-> TRUE, text |-> "/system"]),
                       Box([utf8 |-> FALSE, text |-> "?"])} }

\* what a build makes of CStr::from_ptr( null ): a crash, or a string read
\* from wherever
UndefinedOutcomes ==
    { [crash |-> TRUE, value |-> None],
      [crash |-> FALSE, value |-> None],
      [crash |-> FALSE, value |-> Some("")] }

retro_get_system_info(info, core_info) ==
    /\ HostCalls
    /\ LET out == on_get_system_info(INFO, info, core_info)
       IN  /\ INFO' = out.self
           /\ panic' = out.panic
           /\ last' = Done("retro_get_system_info", <<info>>, out.ret, out.calls)
    /\ frame' = NULL
    /\ UNCHANGED <<LIBRETRO_INSTANCE, ENVIRONMENT_CALLBACK, handle, instances, builders,
                   completed>>

retro_get_memory_data(id, core) ==
    /\ HostCalls
    /\ \/ NullInstance("retro_get_memory_data", <<id, core>>)
       \/ /\ LIBRETRO_INSTANCE # NULL
          /\ Applies("retro_get_memory_data", <<id, core>>,
                     on_get_memory_data(Deref(LIBRETRO_INSTANCE), id, core))

retro_get_memory_size(id, core) ==
    /\ HostCalls
    /\ \/ NullInstance("retro_get_memory_size", <<id, core>>)
       \/ /\ LIBRETRO_INSTANCE # NULL
          /\ Applies("retro_get_memory_size", <<id, core>>,
                     on_get_memory_size(Deref(LIBRETRO_INSTANCE), id, core))

\* the core calls environment::get_system_directory
environment_get_system_directory ==
    /\ HostCalls
    /\ \E answer \in DirectoryAnswers, reads \in BOOLEAN, undefined \in UndefinedOutcomes :
          LET out == get_system_directory(ENVIRONMENT_CALLBACK, answer, reads, undefined)
          IN  /\ panic' = out.panic
              /\ last' = Done("get_system_directory", <<answer>>, out.ret, out.calls)
    /\ frame' = NULL
    /\ UNCHANGED <<LIBRETRO_INSTANCE, ENVIRONMENT_CALLBACK, handle, instances, statics>>

NextHost ==
    \/ retro_init
    \/ retro_deinit
    \/ \E callback \in Pointers : retro_set_environment(callback)
    \/ \E info \in Pointers, core_info \in CoreInfos : retro_get_system_info(info, core_info)
    \/ \E result \in LoadGameResults, ok \in BOOLEAN, game \in GameInfos :
          retro_load_game(result, ok, game)
    \/ retro_unload_game
    \/ \E id \in RequestedMemoryIds, core \in CoreMemories : retro_get_memory_data(id, core)
    \/ \E id \in RequestedMemoryIds, core \in CoreMemories : retro_get_memory_size(id, core)
    \/ environment_get_system_directory

\* the entry points a host calls and the query a core makes outside of frames
SpecHost == Init /\ [][NextHost]_vars

-----------------------------------------------------------------------------
(* The builder chains a core writes in info() and on_load_game.            *)

\* the extensions a core passes: the archive names, one of them with a dot,
\* with two dots and in upper case, a ROM extension, the empty string, a lone
\* dot, and a string that holds a NUL
Extensions ==
    ArchiveExtensions \cup
    { <<".", "z", "i", "p">>, <<".", ".", "z", "i", "p">>, <<"Z", "I", "P">>,
      <<"b", "i", "n">>, << >>, <<".">>, <<"a", NUL>> }

Dims == 0..MaxDim

InitBuilders ==
    /\ LIBRETRO_INSTANCE = NULL
    /\ ENVIRONMENT_CALLBACK = None
    /\ handle = NULL
    /\ panic = NoPanic
    /\ frame = NULL
    /\ last = Done("new", << >>, None, << >>)
    /\ instances = 0
    /\ INFO = None
    /\ built_core_info = Box(CoreInfo_new("core", "1.0"))
    /\ added_extensions = << >>
    /\ built_av_info = Box(AudioVideoInfo_new)
    /\ completed = NoRuns

\* what a step of a builder chain leaves alone
adapter == <<LIBRETRO_INSTANCE, ENVIRONMENT_CALLBACK, handle, frame, instances, INFO,
             completed>>

CoreInfo_supports_roms_with_extension(extension) ==
    /\ panic = NoPanic
    /\ Len(added_extensions) < MaxExtensions
    /\ LET out == supports_roms_with_extension(Deref(built_core_info), extension)
       IN  /\ built_core_info' = Box(out.self)
           /\ panic' = out.panic
           /\ added_extensions' = IF out.panic = NoPanic
                                  THEN Append(added_extensions, extension)
                                  ELSE added_extensions
           /\ last' = Done("supports_roms_with_extension", <<extension>>, out.ret, << >>)
    /\ UNCHANGED <<adapter, built_av_info>>

CoreInfo_requires_path_when_loading_roms ==
    /\ panic = NoPanic
    /\ built_core_info' = Box(requires_path_when_loading_roms(Deref(built_core_info)))
    /\ last' = Done("requires_path_when_loading_roms", << >>, Some(Unit), << >>)
    /\ UNCHANGED <<adapter, panic, added_extensions, built_av_info>>

NextCoreInfo ==
    \/ \E extension \in Extensions : CoreInfo_supports_roms_with_extension(extension)
    \/ CoreInfo_requires_path_when_loading_roms

\* CoreInfo::new followed by any chain of its two builder methods
SpecCoreInfo == InitBuilders /\ [][NextCoreInfo]_vars

\* a step of the AudioVideoInfo chain: op with args gives next
Chained(op, args, next) ==
    /\ built_av_info' = Box(next)
    /\ last' = Done(op, args, Some(Unit), << >>)
    /\ UNCHANGED <<adapter, panic, built_core_info, added_extensions>>

AudioVideoInfo_video(width, height, frames_per_second, pixel_format) ==
    /\ panic = NoPanic
    /\ Chained("video", <<width, height, frames_per_second, pixel_format>>,
               video(Deref(built_av_info), width, height, frames_per_second, pixel_format))

AudioVideoInfo_max_video_size(max_width, max_height) ==
    /\ panic = NoPanic
    /\ Chained("max_video_size", <<max_width, max_height>>,
               max_video_size(Deref(built_av_info), max_width, max_height))

AudioVideoInfo_aspect_ratio(ratio) ==
    /\ panic = NoPanic
    /\ Chained("aspect_ratio", <<ratio>>, aspect_ratio(Deref(built_av_info), ratio))

AudioVideoInfo_audio(sample_rate) ==
    /\ panic = NoPanic
    /\ Chained("audio", <<sample_rate>>, audio(Deref(built_av_info), sample_rate))

AudioVideoInfo_region(game_region) ==
    /\ panic = NoPanic
    /\ Chained("region", <<game_region>>, region(Deref(built_av_info), game_region))

\* get-region asked of an adapter that holds the description built so far
Retro_on_get_region ==
    /\ panic = NoPanic
    /\ last' = Done("on_get_region", << >>,
                    Some(on_get_region([Retro_new EXCEPT
                                           !.av_info = Deref(built_av_info)])),
                    << >>)
    /\ UNCHANGED <<adapter, panic, builders>>

NextAudioVideoInfo ==
    \* frame rates below, at and above the 59.0 of infer_game_region
    \/ \E width \in Dims, height \in Dims, frames_per_second \in {5000, 5900, 6000},
          pixel_format \in {"ARGB8888"} :
          AudioVideoInfo_video(width, height, frames_per_second, pixel_format)
    \/ \E max_width \in Dims, max_height \in Dims :
          AudioVideoInfo_max_video_size(max_width, max_height)
    \/ \E ratio \in {1} : AudioVideoInfo_aspect_ratio(ratio)
    \/ \E sample_rate \in {48000} : AudioVideoInfo_audio(sample_rate)
    \/ \E game_region \in Regions : AudioVideoInfo_region(game_region)
    \/ Retro_on_get_region

\* AudioVideoInfo::new followed by any chain of its builder methods
SpecAudioVideoInfo == InitBuilders /\ [][NextAudioVideoInfo]_vars

-----------------------------------------------------------------------------
(* Consecutive run calls of a loaded game whose audio requirement per      *)
(* frame is not a whole number; each action is a whole retro_run call.     *)

\* 48015 Hz at 60 fps asks for 1600.5 values a frame, 48000 Hz at 59.94 fps
\* for 1601.6016...
FractionalConfigs ==
    { audio(video(AudioVideoInfo_new, 4, 2, 6000, "ARGB8888"), 48015),
      audio(video(AudioVideoInfo_new, 4, 2, 5994, "ARGB8888"), 48000) }

\* the i16 values a core uploads in the one upload_audio_frame call of a run
AudioChunks == {0, 1600, 1602, 3200}

\* the adapter after retro_init, the callback setters and a successful
\* retro_load_game
InitLoaded ==
    /\ ENVIRONMENT_CALLBACK = Some(1)
    /\ \E config \in FractionalConfigs :
          LET registered ==
                  on_set_input_state(
                      on_set_input_poll(
                          on_set_audio_sample_batch(
                              on_set_video_refresh(Retro_new, 1), 1), 1), 1)
              out == on_load_game(registered, ENVIRONMENT_CALLBACK, NULL,
                                  Success(config), TRUE)
          IN  /\ LIBRETRO_INSTANCE = Box(out.self)
              /\ last = Done("retro_load_game", <<Success(config), TRUE, NULL>>,
                             out.ret, out.calls)
    /\ handle = NULL
    /\ panic = NoPanic
    /\ frame = NULL
    /\ instances = 1
    /\ INFO = None
    /\ built_core_info = NULL
    /\ added_extensions = << >>
    /\ built_av_info = NULL
    /\ completed = NoRuns

\* a whole retro_run call in which the core's on_run uploads n values in one
\* upload_audio_frame call and no video
retro_run_uploading(n) ==
    /\ HostCalls
    /\ LIBRETRO_INSTANCE # NULL
    /\ completed.runs < MaxRuns
    /\ LET self == Deref(LIBRETRO_INSTANCE)
           entered == on_run_enter(self)
           uploaded == upload_audio_frame(Deref(entered.self), n)
           returned == on_run_return(self, uploaded.self)
           out == IF entered.panic # NoPanic
                  THEN Outcome(self, None, entered.calls, entered.panic)
                  ELSE IF uploaded.panic # NoPanic
                  THEN Outcome(self, None, entered.calls \o uploaded.calls,
                               uploaded.panic)
                  ELSE Outcome(returned.self, returned.ret,
                               entered.calls \o uploaded.calls \o returned.calls,
                               returned.panic)
       IN  /\ LIBRETRO_INSTANCE' = Box(out.self)
           /\ panic' = out.panic
           /\ last' = Done("retro_run", <<>>, out.ret, out.calls)
           /\ frame' = Box([carried |-> self.total_audio_samples_uploaded,
                            audio_passed |-> IF uploaded.panic = NoPanic THEN n ELSE 0,
                            video_refreshed |-> 0])
           /\ completed' = IF out.panic = NoPanic
                           THEN [runs |-> completed.runs + 1,
                                 uploaded |-> completed.uploaded + n]
                           ELSE completed
    /\ UNCHANGED <<ENVIRONMENT_CALLBACK, handle, instances, INFO, builders>>

NextAudioBudget == \E n \in AudioChunks : retro_run_uploading(n)

\* run after run of a loaded game with a fractional requirement
SpecAudioBudget == InitLoaded /\ [][NextAudioBudget]_vars

-----------------------------------------------------------------------------
(* Properties of the per-frame audio budget.                               *)

Retro == Deref(LIBRETRO_INSTANCE)

\* retro_run has ended, by returning or by a panic after the core's on_run
\* returned; frame still holds what that call saw
RunEnded == last.op = "retro_run" /\ handle = NULL /\ frame # NULL

\* the carried surplus at the entry of the run call, and the number of i16 values
\* passed to upload_audio_frame during it
CarriedIn == Deref(frame).carried
Uploaded == Deref(frame).audio_passed

SampleRate == Retro.av_info.audio_sample_rate
Fps100 == Retro.av_info.frames_per_second

\* sampleRate = 48000 and fps = 60: 1600 values a frame
Is48000At60 == SampleRate = 48000 /\ Fps100 = 6000

\* C1: a run whose carried surplus plus uploaded values is below
\* 2 * sampleRate / fps ends in the audio panic, and a run that reaches it does
\* not panic; 800 values at 48000 Hz and 60 fps with no surplus is fatal.
C1_AudioBudgetGate ==
    RunEnded =>
        /\ (Fps100 > 0 /\ (CarriedIn + Uploaded) * Fps100 < 200 * SampleRate)
               => panic = PanicAudioShort
        /\ (Fps100 > 0 /\ (CarriedIn + Uploaded) * Fps100 >= 200 * SampleRate)
               => panic = NoPanic
        /\ (Is48000At60 /\ CarriedIn = 0 /\ Uploaded = 800) => panic # NoPanic

C1_Witness ==
    /\ RunEnded
    /\ Is48000At60
    /\ CarriedIn = 0
    /\ Uploaded = 800
    /\ panic = PanicAudioShort

\* C2: when 2 * sampleRate / fps is whole, a run that completes leaves the
\* carried surplus at (surplus at entry + uploaded) - requirement, never negative;
\* at 1600 a frame, 1700 and then 1500 both complete, leaving 100 and then 0.
C2_CarriedSurplus ==
    RunEnded =>
        /\ (panic = NoPanic /\ Fps100 > 0 /\ (200 * SampleRate) % Fps100 = 0) =>
               /\ Retro.total_audio_samples_uploaded * Fps100
                      = (CarriedIn + Uploaded) * Fps100 - 200 * SampleRate
               /\ Retro.total_audio_samples_uploaded >= 0
        /\ (Is48000At60 /\ CarriedIn = 0 /\ Uploaded = 1700) =>
               panic = NoPanic /\ Retro.total_audio_samples_uploaded = 100
        /\ (Is48000At60 /\ CarriedIn = 100 /\ Uploaded = 1500) =>
               panic = NoPanic /\ Retro.total_audio_samples_uploaded = 0

C2_Witness ==
    /\ RunEnded
    /\ Is48000At60
    /\ CarriedIn = 100
    /\ Uploaded = 1500
    /\ panic = NoPanic
    /\ Retro.total_audio_samples_uploaded = 0

\* C3 as stated: at 48000 Hz and 60 fps a run that uploads 3200 i16 values with
\* no surplus carried in completes with no surplus carried out.
C3_Original ==
    (RunEnded /\ Is48000At60 /\ CarriedIn = 0 /\ Uploaded = 3200) =>
        panic = NoPanic /\ Retro.total_audio_samples_uploaded = 0

\* C3 amended: at 48000 Hz and 60 fps a run that uploads 1600 i16 values (800
\* stereo samples) with no surplus carried in completes with no surplus carried
\* out, so every run of such a core does; a run that uploads 3200 values
\* completes too and carries 1600 out.
C3_ExactBudget ==
    (RunEnded /\ Is48000At60 /\ CarriedIn = 0) =>
        /\ Uploaded = 1600 => panic = NoPanic /\ Retro.total_audio_samples_uploaded = 0
        /\ Uploaded = 3200 => panic = NoPanic /\ Retro.total_audio_samples_uploaded = 1600

C3_Witness ==
    /\ RunEnded
    /\ Is48000At60
    /\ CarriedIn = 0
    /\ Uploaded = 1600
    /\ panic = NoPanic
    /\ Retro.total_audio_samples_uploaded = 0

-----------------------------------------------------------------------------
(* Properties of the video and audio uploads.                              *)

\* the step is a call of upload_video_frame or upload_audio_frame by the core
VideoUploadStep == CoreRuns /\ last'.op = "upload_video_frame"
AudioUploadStep == CoreRuns /\ last'.op = "upload_audio_frame"

\* the step is the entry of retro_run into the core's on_run, or the end of
\* retro_run after the core's on_run returned
RunEnterStep == HostCalls /\ last'.op = "retro_run" /\ handle' # NULL
RunReturnStep == CoreRuns /\ last'.op = "retro_run"

\* C4: a call of upload_video_frame after one that succeeded in the same run
\* panics without reaching the host, so the host's video-refresh runs at most
\* once a run; each run starts with the flag clear, so its first upload is not
\* refused as a second one, and a run without any upload ends without a video
\* panic.
C4_VideoOncePerFrame ==
    [][ /\ VideoUploadStep =>
              IF Deref(frame).video_refreshed >= 1
              THEN /\ panic' = PanicVideoTwice
                   /\ last'.calls = << >>
                   /\ Deref(frame').video_refreshed = 1
              ELSE panic' # PanicVideoTwice
        /\ RunEnterStep =>
              /\ Deref(handle').upload_video_frame_already_called = FALSE
              /\ Deref(frame').video_refreshed = 0
        /\ (RunReturnStep /\ Deref(frame).video_refreshed = 0) =>
              panic' \in {NoPanic, PanicAudioShort}
      ]_vars

C4_Witness ==
    /\ last.op = "upload_video_frame"
    /\ panic = PanicVideoTwice
    /\ Deref(frame).video_refreshed = 1
    /\ Retro.total_audio_samples_uploaded > 0

\* C5 as stated: the first upload_video_frame of a run succeeds with a buffer of
\* exactly width * height * bytesPerPixel bytes, the host being called with that
\* buffer, width, height and the pitch width * bytesPerPixel, and panics without
\* calling the host with a buffer one byte shorter, or empty.
C5_Original ==
    (last.op = "upload_video_frame" /\ panic # PanicVideoTwice) =>
        LET h == Deref(handle)
            len == last.args[1]
            exact == FrameBytes(h)
            pitch == MulSmall(ToLimbs(h.video_width), h.video_frame_bytes_per_pixel)
        IN  /\ len = exact =>
                /\ panic = NoPanic
                /\ last.calls = <<Call("video_refresh",
                                       <<len, h.video_width, h.video_height, pitch>>)>>
            /\ (exact # Zero /\ len \in {Pred(exact), Zero}) =>
                /\ panic # NoPanic
                /\ last.calls = << >>

\* C6: upload_audio_frame with an odd number of values panics, calls nobody and
\* leaves the handle's count alone; with an even number n it calls the host's
\* audio-batch callback once with n / 2 frames and adds n to the count.
C6_StereoParity ==
    [][ AudioUploadStep =>
            LET n == last'.args[1]
                before == Deref(handle).audio_samples_uploaded
                after == Deref(handle').audio_samples_uploaded
            IN  IF n % 2 = 1
                THEN /\ panic' = PanicStereo
                     /\ last'.calls = << >>
                     /\ after = before
                ELSE /\ panic' = NoPanic
                     /\ last'.calls = <<Call("audio_sample_batch", <<n \div 2>>)>>
                     /\ after = before + n
      ]_vars

C6_Witness ==
    /\ last.op = "upload_audio_frame"
    /\ last.args[1] % 2 = 1
    /\ panic = PanicStereo
    /\ Deref(handle).audio_samples_uploaded = 1600

-----------------------------------------------------------------------------
(* Properties of load-game and unload-game.                                *)

Live == LIBRETRO_INSTANCE # NULL

\* the step is retro_load_game or retro_unload_game on a live instance
LoadStep == HostCalls /\ Live /\ last'.op = "retro_load_game"
UnloadStep == HostCalls /\ Live /\ last'.op = "retro_unload_game"

CoreLoadCall(game) == Call("core.on_load_game", <<game_data(game)>>)
CoreUnloadCall == Call("core.on_unload_game", << >>)
SetPixelFormatCall(pixel_format) == Call("environment", <<"SET_PIXEL_FORMAT", pixel_format>>)

\* C7: retro_load_game with a game loaded panics before anything else happens:
\* the core and the host are not called and the instance and the environment
\* callback are as before.
C7_LoadWhileLoaded ==
    [][ (LoadStep /\ Retro.is_game_loaded) =>
            /\ panic' = PanicGameLoaded
            /\ last'.ret = None
            /\ last'.calls = << >>
            /\ LIBRETRO_INSTANCE' = LIBRETRO_INSTANCE
            /\ ENVIRONMENT_CALLBACK' = ENVIRONMENT_CALLBACK
      ]_vars

C7_Witness ==
    /\ last.op = "retro_load_game"
    /\ panic = PanicGameLoaded
    /\ Retro.is_game_loaded
    /\ last.calls = << >>

\* C8 as stated: with no game loaded and the core answering Success(config),
\* retro_load_game stores config, calls the environment once with
\* SET_PIXEL_FORMAT and config's pixel format after the core, sets the loaded
\* flag and returns true.
C8_Original ==
    [][ (LoadStep /\ ~Retro.is_game_loaded /\ last'.args[1].tag = "Success") =>
            LET config == last'.args[1].av_info
            IN  /\ panic' = NoPanic
                /\ Deref(LIBRETRO_INSTANCE').av_info = config
                /\ last'.calls = <<CoreLoadCall(last'.args[3]), SetPixelFormatCall(config.pixel_format)>>
                /\ Deref(LIBRETRO_INSTANCE').is_game_loaded
                /\ last'.ret = Some(TRUE)
      ]_vars

\* what get-system-av-info and get-region answer for an AudioVideoInfo
AvInfoAnswer(av_info) ==
    [base_width |-> av_info.width,
     base_height |-> av_info.height,
     max_width |-> av_info.max_width,
     max_height |-> av_info.max_height,
     aspect_ratio |-> IF av_info.aspect_ratio = << >> THEN 0 ELSE av_info.aspect_ratio[1],
     fps |-> av_info.frames_per_second,
     sample_rate |-> av_info.audio_sample_rate]

RegionAnswer(av_info) ==
    IF av_info.game_region = <<"NTSC">> THEN "NTSC"
    ELSE IF av_info.game_region = <<"PAL">> THEN "PAL"
    ELSE IF av_info.frames_per_second > 5900 THEN "NTSC" ELSE "PAL"

\* C8 amended: with no game loaded and the core answering Success(config),
\* retro_load_game stores config and, when the environment callback is
\* registered and the host accepts SET_PIXEL_FORMAT, has called the core and
\* then the environment exactly once with config's pixel format, sets the loaded
\* flag and returns true; when the callback is not registered or the host
\* refuses, it panics with config stored and the loaded flag still clear.  While
\* the game stays loaded the stored config does not change, and
\* get-system-av-info and get-region answer from the stored config.
C8_LoadSuccess ==
    [][ /\ (LoadStep /\ ~Retro.is_game_loaded /\ last'.args[1].tag = "Success") =>
              LET config == last'.args[1].av_info
                  ok == last'.args[2]
                  after == Deref(LIBRETRO_INSTANCE')
              IN  /\ after.av_info = config
                  /\ IF ENVIRONMENT_CALLBACK # None /\ ok
                     THEN /\ panic' = NoPanic
                          /\ last'.calls = <<CoreLoadCall(last'.args[3]),
                                             SetPixelFormatCall(config.pixel_format)>>
                          /\ after.is_game_loaded
                          /\ last'.ret = Some(TRUE)
                     ELSE /\ panic' # NoPanic
                          /\ last'.calls = IF ENVIRONMENT_CALLBACK = None
                                           THEN <<CoreLoadCall(last'.args[3])>>
                                           ELSE <<CoreLoadCall(last'.args[3]),
                                                  SetPixelFormatCall(config.pixel_format)>>
                          /\ ~after.is_game_loaded
                          /\ last'.ret = None
        /\ (Live /\ LIBRETRO_INSTANCE' # NULL /\ Retro.is_game_loaded) =>
              Deref(LIBRETRO_INSTANCE').av_info = Retro.av_info
        /\ (HostCalls /\ Live /\ last'.op = "retro_get_system_av_info") =>
              last'.ret = Some(AvInfoAnswer(Retro.av_info))
        /\ (HostCalls /\ Live /\ last'.op = "retro_get_region") =>
              last'.ret = Some(RegionAnswer(Retro.av_info))
      ]_vars

C8_Witness ==
    /\ last.op = "retro_get_region"
    /\ Live
    /\ Retro.is_game_loaded
    /\ Retro.av_info.pixel_format = "ARGB8888"
    /\ last.ret = Some("NTSC")

\* C9: with no game loaded and the core answering Failed, retro_load_game
\* returns false having called only the core, and the instance and the
\* environment callback are as before; a load-game that follows is not refused
\* for a game being loaded.
C9_LoadFailure ==
    [][ /\ (LoadStep /\ ~Retro.is_game_loaded /\ last'.args[1].tag = "Failed") =>
              /\ panic' = NoPanic
              /\ last'.ret = Some(FALSE)
              /\ last'.calls = <<CoreLoadCall(last'.args[3])>>
              /\ LIBRETRO_INSTANCE' = LIBRETRO_INSTANCE
              /\ ENVIRONMENT_CALLBACK' = ENVIRONMENT_CALLBACK
        /\ (LoadStep /\ last.op = "retro_load_game" /\ last.ret = Some(FALSE)) =>
              panic' # PanicGameLoaded
      ]_vars

C9_Witness ==
    /\ last.op = "retro_load_game"
    /\ last.args[1].tag = "Failed"
    /\ last.ret = Some(FALSE)
    /\ Live
    /\ ~Retro.is_game_loaded

\* C10 as stated: retro_unload_game calls the core's on_unload_game once when a
\* game is loaded and not at all otherwise, changing nothing then; when it
\* returns the loaded flag is clear.
C10_Original ==
    [][ UnloadStep =>
            /\ panic' = NoPanic
            /\ last'.calls = IF Retro.is_game_loaded THEN <<CoreUnloadCall>> ELSE << >>
            /\ ~Retro.is_game_loaded => LIBRETRO_INSTANCE' = LIBRETRO_INSTANCE
            /\ ~Deref(LIBRETRO_INSTANCE').is_game_loaded
      ]_vars

-----------------------------------------------------------------------------
(* Properties of the instance's lifecycle and of the callback slots.       *)

\* the step is the entry point op, called by the host
HostStep(op) == HostCalls /\ last'.op = op

\* C11: retro_init with a live instance panics and leaves the instance alone;
\* retro_deinit without a live instance panics; retro_init without a live
\* instance, also after a retro_deinit, yields an instance with no callback
\* registered, no game loaded and no carried audio surplus; at most one Retro
\* object exists at any time, and it is the one LIBRETRO_INSTANCE points to.
C11_Lifecycle ==
    [][ /\ HostStep("retro_init") =>
              IF Live
              THEN /\ panic' = PanicLiveInstance
                   /\ LIBRETRO_INSTANCE' = LIBRETRO_INSTANCE
              ELSE /\ panic' = NoPanic
                   /\ LIBRETRO_INSTANCE' # NULL
                   /\ LET fresh == Deref(LIBRETRO_INSTANCE')
                      IN  /\ fresh.video_refresh_callback = None
                          /\ fresh.audio_sample_callback = None
                          /\ fresh.audio_sample_batch_callback = None
                          /\ fresh.input_poll_callback = None
                          /\ fresh.input_state_callback = None
                          /\ fresh.is_game_loaded = FALSE
                          /\ fresh.total_audio_samples_uploaded = 0
        /\ HostStep("retro_deinit") =>
              IF Live
              THEN /\ panic' = NoPanic
                   /\ LIBRETRO_INSTANCE' = NULL
              ELSE panic' = PanicNullInstance
        /\ instances' <= 1
        /\ instances' = 1 <=> LIBRETRO_INSTANCE' # NULL
      ]_vars

\* a retro_init refused because the instance, which has a callback registered,
\* is live
C11_Witness ==
    /\ last.op = "retro_init"
    /\ panic = PanicLiveInstance
    /\ instances = 1
    /\ Retro.video_refresh_callback # None

\* the Retro field an entry point of the retro_set_* family writes
Slot ==
    [retro_set_video_refresh |-> "video_refresh_callback",
     retro_set_audio_sample |-> "audio_sample_callback",
     retro_set_audio_sample_batch |-> "audio_sample_batch_callback",
     retro_set_input_poll |-> "input_poll_callback",
     retro_set_input_state |-> "input_state_callback"]

\* the four callbacks on_run unwraps are registered
RunCallbacksRegistered(self) ==
    /\ self.video_refresh_callback # None
    /\ self.audio_sample_batch_callback # None
    /\ self.input_poll_callback # None
    /\ self.input_state_callback # None

\* C12: a retro_set_* call on a live instance makes its slot registered when
\* the pointer is non-null and unregistered when it is null, and leaves every
\* other field of the instance alone; retro_run on a live instance enters the
\* core's on_run, after polling the input, exactly when the slots of
\* video-refresh, audio-sample-batch, input-poll and input-state are registered
\* (the audio-sample slot does not matter), and panics without calling the core
\* otherwise.
C12_RunCallbacks ==
    [][ /\ \A op \in DOMAIN Slot :
              (HostStep(op) /\ Live) =>
                  LET callback == last'.args[1]
                  IN  /\ panic' = NoPanic
                      /\ Deref(LIBRETRO_INSTANCE') =
                            [Retro EXCEPT ![Slot[op]] =
                                IF callback = 0 THEN << >> ELSE <<callback>>]
        /\ (HostStep("retro_run") /\ Live) =>
              IF RunCallbacksRegistered(Retro)
              THEN /\ panic' = NoPanic
                   /\ handle' # NULL
                   /\ last'.calls = <<Call("input_poll", << >>), Call("core.on_run", << >>)>>
              ELSE /\ panic' = PanicUnwrapNone
                   /\ handle' = NULL
                   /\ last'.calls = << >>
      ]_vars

\* a run refused because the video-refresh slot was cleared again, the other
\* three being registered
C12_Witness ==
    /\ last.op = "retro_run"
    /\ panic = PanicUnwrapNone
    /\ Retro.video_refresh_callback = None
    /\ Retro.audio_sample_batch_callback # None
    /\ Retro.input_poll_callback # None
    /\ Retro.input_state_callback # None
    /\ Retro.total_audio_samples_uploaded > 0

-----------------------------------------------------------------------------
(* Properties of the entry points outside of frames (under SpecHost).      *)

\* what retro_get_system_info writes for a CoreInfo
SystemInfoAnswer(described) ==
    [library_name |-> described.library_name,
     library_version |-> described.library_version,
     valid_extensions |-> described.supported_romfile_extensions,
     need_fullpath |-> described.require_path_when_loading_roms,
     block_extract |-> ~described.allow_frontend_to_extract_archives]

\* C13: retro_get_system_info, given somewhere to write, does not panic whether
\* or not an instance is live; it evaluates the core's info() when INFO is
\* empty and never otherwise, INFO once filled is never changed by any entry
\* point (retro_init and retro_deinit included), and every answer is the name,
\* version, extension list and path flag of the CoreInfo in INFO, with
\* block_extract the negation of its allow_frontend_to_extract_archives.
C13_MemoizedInfo ==
    [][ /\ (HostStep("retro_get_system_info") /\ last'.args[1] # 0) =>
              /\ panic' = NoPanic
              /\ INFO' # None
              /\ last'.calls = IF INFO = None THEN <<Call("core.info", << >>)>> ELSE << >>
              /\ last'.ret = Some(SystemInfoAnswer(INFO'[1]))
        /\ INFO # None => INFO' = INFO
      ]_vars

\* a query answered from INFO while no instance is live
C13_Witness ==
    /\ last.op = "retro_get_system_info"
    /\ last.calls = << >>
    /\ last.ret # None
    /\ LIBRETRO_INSTANCE = NULL
    /\ unwrap(last.ret).block_extract

\* C14 as stated: when the host answers false to an environment call,
\* retro_load_game with a core answering Success panics, and
\* get_system_directory returns None without a panic.
C14_Original ==
    /\ ( /\ last.op = "retro_load_game"
         /\ last.calls # << >>
         /\ ENVIRONMENT_CALLBACK # None
         /\ last.args[1].tag = "Success"
         /\ ~last.args[2] ) => panic # NoPanic
    /\ ( /\ last.op = "get_system_directory"
         /\ ENVIRONMENT_CALLBACK # None
         /\ ~last.args[1].ok ) => (panic = NoPanic /\ last.ret = Some(None))

\* the answer of the core's accessor for a memory id
Exposed(core, id) ==
    CASE id = "MEMORY_SAVE_RAM" -> core.save_memory
      [] id = "MEMORY_RTC" -> core.rtc_memory
      [] id = "MEMORY_SYSTEM_RAM" -> core.system_memory
      [] id = "MEMORY_VIDEO_RAM" -> core.video_memory

Region(id) ==
    CASE id = "MEMORY_SAVE_RAM" -> "save_memory"
      [] id = "MEMORY_RTC" -> "rtc_memory"
      [] id = "MEMORY_SYSTEM_RAM" -> "system_memory"
      [] id = "MEMORY_VIDEO_RAM" -> "video_memory"

AccessorCall(id) == Call("core." \o Region(id), << >>)

\* C15: for each of the four memory ids, retro_get_memory_data and
\* retro_get_memory_size call the one accessor of the core that belongs to the
\* id; data is a null pointer and size zero when the accessor returns None, and
\* data is a non-null pointer (to that region) and size the slice's length when
\* it returns a slice; the instance and the environment callback stay as they
\* were.
C15_MemoryRegions ==
    [][ \A op \in {"retro_get_memory_data", "retro_get_memory_size"} :
            (HostStep(op) /\ Live /\ last'.args[1] \in MemoryIds) =>
                LET id == last'.args[1]
                    exposed == Exposed(last'.args[2], id)
                IN  /\ panic' = NoPanic
                    /\ LIBRETRO_INSTANCE' = LIBRETRO_INSTANCE
                    /\ ENVIRONMENT_CALLBACK' = ENVIRONMENT_CALLBACK
                    /\ last'.calls = <<AccessorCall(id)>>
                    /\ IF op = "retro_get_memory_data"
                       THEN /\ exposed = None => last'.ret = Some(NULL)
                            /\ exposed # None =>
                                  /\ last'.ret # Some(NULL)
                                  /\ last'.ret = Some(Box(Region(id)))
                       ELSE last'.ret = Some(IF exposed = None THEN 0 ELSE exposed[1])
      ]_vars

\* the size of a core's empty system RAM, which is exposed
C15_Witness ==
    /\ last.op = "retro_get_memory_size"
    /\ last.args[1] = "MEMORY_SYSTEM_RAM"
    /\ last.args[2].system_memory # None
    /\ last.ret = Some(0)
    /\ Live
    /\ Retro.is_game_loaded

\* C16 as stated: the GameData retro_load_game hands to the core has no data
\* when the host's data pointer is null or its size is zero, no path when the
\* path pointer is null, and neither when the retro_game_info pointer is null.
C16_Original ==
    (last.op = "retro_load_game" /\ last.calls # << >>) =>
        LET game == last.args[3]
            handed == last.calls[1].args[1]
        IN  IF game = NULL
            THEN handed.path = None /\ handed.data = None
            ELSE /\ (Deref(game).data = 0 \/ Deref(game).size = 0) => handed.data = None
                 /\ Deref(game).path = NULL => handed.path = None

-----------------------------------------------------------------------------
(* Properties of the CoreInfo builder (under SpecCoreInfo).                *)

BuiltCoreInfo == Deref(built_core_info)

\* an extension without its first character if that is a dot
StripOne(extension) ==
    IF Len(extension) > 0 /\ extension[1] = "."
    THEN SubSeq(extension, 2, Len(extension))
    ELSE extension

\* one of the twelve archive names, as it is or after one dot
NamesArchive(extension) ==
    \/ extension \in ArchiveExtensions
    \/ \E archive \in ArchiveExtensions : extension = <<".">> \o archive

\* C17: after any chain of builder calls the archive flag
\* (allow_frontend_to_extract_archives) is false exactly when one of the added
\* extensions was an archive name, with or without a leading dot; a step never
\* turns it from false to true, and requires_path_when_loading_roms leaves it
\* as it is.
C17_ArchiveFlag ==
    [][ LET before == BuiltCoreInfo.allow_frontend_to_extract_archives
            after == Deref(built_core_info').allow_frontend_to_extract_archives
        IN  /\ panic' = NoPanic =>
                  (after <=> ~ \E i \in 1..Len(added_extensions') :
                                    NamesArchive(added_extensions'[i]))
            /\ ~before => ~after
            /\ last'.op = "requires_path_when_loading_roms" => after = before
      ]_vars

\* the flag cleared by ".zip" and still clear after "bin", "ZIP" and a path
\* requirement
C17_Witness ==
    /\ Len(added_extensions) = 3
    /\ added_extensions[1] = <<".", "z", "i", "p">>
    /\ added_extensions[2] = <<"b", "i", "n">>
    /\ added_extensions[3] = <<"Z", "I", "P">>
    /\ BuiltCoreInfo.require_path_when_loading_roms
    /\ ~BuiltCoreInfo.allow_frontend_to_extract_archives

RECURSIVE Joined(_)
Joined(strings) ==
    IF Len(strings) = 0 THEN << >>
    ELSE IF Len(strings) = 1 THEN strings[1]
    ELSE strings[1] \o <<"|">> \o Joined(Tail(strings))

RECURSIVE WithoutLeadingEmpty(_)
WithoutLeadingEmpty(strings) ==
    IF Len(strings) > 0 /\ strings[1] = << >>
    THEN WithoutLeadingEmpty(Tail(strings))
    ELSE strings

Stripped == [i \in 1..Len(added_extensions) |-> StripOne(added_extensions[i])]

\* C18: after any chain of supports_roms_with_extension calls the stored list
\* is the added extensions, each without one leading dot, in the order of the
\* calls, duplicates included, joined by '|'; when none of them is empty after
\* the dot is removed the list neither starts nor ends with a separator.
\* (Extensions that are empty before the first non-empty one leave no
\* separator behind.)
C18_ExtensionList ==
    panic = NoPanic =>
        LET list == BuiltCoreInfo.supported_romfile_extensions
        IN  /\ list = Joined(WithoutLeadingEmpty(Stripped))
            /\ (\A i \in 1..Len(Stripped) : Stripped[i] # << >>) =>
                  /\ list = Joined(Stripped)
                  /\ Len(list) > 0 => (list[1] # "|" /\ list[Len(list)] # "|")

\* "zip|zip|.zip" from ".zip", "zip" and "..zip"
C18_Witness ==
    /\ added_extensions = << <<".", "z", "i", "p">>, <<"z", "i", "p">>,
                             <<".", ".", "z", "i", "p">> >>
    /\ BuiltCoreInfo.supported_romfile_extensions =
          <<"z", "i", "p", "|", "z", "i", "p", "|", ".", "z", "i", "p">>

\* the lower-case letter of each upper-case letter
LowerCase == [Z |-> "z", I |-> "i", P |-> "p"]

to_lowercase(string) ==
    [i \in 1..Len(string) |->
        IF string[i] \in DOMAIN LowerCase THEN LowerCase[string[i]] ELSE string[i]]

\* C19 as stated: the stored list holds no upper-case letter, and is made of
\* the added extensions lower-cased and without their leading dot.
C19_Original ==
    panic = NoPanic =>
        LET list == BuiltCoreInfo.supported_romfile_extensions
        IN  /\ \A i \in 1..Len(list) : list[i] \notin DOMAIN LowerCase
            /\ list = Joined(WithoutLeadingEmpty(
                          [i \in 1..Len(Stripped) |-> to_lowercase(Stripped[i])]))

-----------------------------------------------------------------------------
(* Properties of the AudioVideoInfo builder (under SpecAudioVideoInfo).    *)

BuiltAvInfo == Deref(built_av_info)

\* C20: after every step of a builder chain max_width >= width and
\* max_height >= height, width and height being those of the last video()
\* call (0 before the first); and no step lowers max_width or max_height.
C20_MaxGeometry ==
    [][ LET before == BuiltAvInfo
            after == Deref(built_av_info')
        IN  /\ after.max_width >= after.width
            /\ after.max_height >= after.height
            /\ after.max_width >= before.max_width
            /\ after.max_height >= before.max_height
            /\ IF last'.op = "video"
               THEN after.width = last'.args[1] /\ after.height = last'.args[2]
               ELSE after.width = before.width /\ after.height = before.height
      ]_vars

\* a video() call with a smaller size after a larger one and a max_video_size
\* call
C20_Witness ==
    /\ last.op = "video"
    /\ BuiltAvInfo.width = 1
    /\ BuiltAvInfo.height = 0
    /\ BuiltAvInfo.max_width = 2
    /\ BuiltAvInfo.max_height = 1
    /\ BuiltAvInfo.aspect_ratio # None

\* C21: get-region answers the region of the last region() call when there
\* was one, whatever the frame rate; otherwise NTSC when the frame rate of
\* the last video() call is above 59.0 and PAL when it is 59.0 or below
\* (60 gives NTSC, 50 and exactly 59.0 give PAL).  region() touches only
\* the region and video() only the rate, so the order of the two calls
\* does not matter.
C21_RegionInference ==
    [][ LET before == BuiltAvInfo
            after == Deref(built_av_info')
        IN  /\ IF last'.op = "region"
               THEN after.game_region = Some(last'.args[1])
               ELSE after.game_region = before.game_region
            /\ IF last'.op = "video"
               THEN after.frames_per_second = last'.args[3]
               ELSE after.frames_per_second = before.frames_per_second
            /\ last'.op = "on_get_region" =>
                  /\ after.game_region # None =>
                        last'.ret = after.game_region
                  /\ after.game_region = None /\ after.frames_per_second > 5900 =>
                        last'.ret = Some("NTSC")
                  /\ after.game_region = None /\ after.frames_per_second <= 5900 =>
                        last'.ret = Some("PAL")
                  /\ after.game_region = Some("PAL") /\ after.frames_per_second = 6000 =>
                        last'.ret = Some("PAL")
                  /\ after.game_region = None /\ after.frames_per_second = 6000 =>
                        last'.ret = Some("NTSC")
                  /\ after.game_region = None /\ after.frames_per_second = 5000 =>
                        last'.ret = Some("PAL")
                  /\ after.game_region = None /\ after.frames_per_second = 5900 =>
                        last'.ret = Some("PAL")
      ]_vars

\* get-region answers PAL at 60 Hz because PAL was set explicitly
C21_ExplicitPalAt60 ==
    /\ last.op = "on_get_region"
    /\ BuiltAvInfo.frames_per_second = 6000
    /\ BuiltAvInfo.game_region = Some("PAL")
    /\ last.ret = Some("PAL")

\* C23 as stated: whatever the negotiated width, height and pixel size and
\* however long the buffer, upload_video_frame never hands the host's
\* video-refresh callback a buffer shorter than width * height *
\* bytesPerPixel bytes, the product taken without wrapping.
C23_Original ==
    last.op = "upload_video_frame" =>
        \A i \in 1..Len(last.calls) :
            last.calls[i].call = "video_refresh" =>
                Geq(last.calls[i].args[1], FrameBytes(Deref(handle)))

\* C24 as stated: when 2 * sampleRate / fps is not whole, a run that completes
\* leaves the carried surplus at exactly (surplus at entry + uploaded) -
\* 2 * sampleRate / fps, so that the values uploaded in the N runs completed
\* since the load, which starts with no surplus, are at least
\* N * 2 * sampleRate / fps.
C24_Original ==
    (RunEnded /\ panic = NoPanic /\ Fps100 > 0 /\ (200 * SampleRate) % Fps100 # 0) =>
        /\ Retro.total_audio_samples_uploaded * Fps100
               = (CarriedIn + Uploaded) * Fps100 - 200 * SampleRate
        /\ completed.uploaded * Fps100 >= completed.runs * 200 * SampleRate


\* C22: a run call that finds its callbacks registered polls the host's input
\* once and then starts the core's on_run once, with the video flag clear and
\* an uploaded count of 0; while on_run runs, neither is called again, the
\* carried surplus is left alone and no audio panic is raised, every upload
\* being added to this call's count; the budget is judged and the surplus
\* rewritten only when on_run has returned, from the surplus at entry plus
\* all that this call uploaded.
C22_RunStepOrder ==
    [][ /\ RunEnterStep =>
              /\ last'.calls = <<Call("input_poll", << >>), Call("core.on_run", << >>)>>
              /\ Deref(handle').upload_video_frame_already_called = FALSE
              /\ Deref(handle').audio_samples_uploaded = 0
              /\ LIBRETRO_INSTANCE' = LIBRETRO_INSTANCE
              /\ panic' = NoPanic
        /\ (CoreRuns /\ last'.op # "retro_run") =>
              /\ \A i \in 1..Len(last'.calls) :
                    last'.calls[i].call \notin {"input_poll", "core.on_run"}
              /\ LIBRETRO_INSTANCE' = LIBRETRO_INSTANCE
              /\ panic' # PanicAudioShort
              /\ handle' # NULL
              /\ (AudioUploadStep /\ panic' = NoPanic) =>
                    Deref(handle').audio_samples_uploaded
                        = Deref(handle).audio_samples_uploaded + last'.args[1]
              /\ ~AudioUploadStep =>
                    Deref(handle').audio_samples_uploaded
                        = Deref(handle).audio_samples_uploaded
        /\ RunReturnStep =>
              /\ last'.calls = << >>
              /\ Retro.total_audio_samples_uploaded = CarriedIn
              /\ Deref(handle).audio_samples_uploaded = Uploaded
              /\ Fps100 > 0 =>
                    /\ panic' = PanicAudioShort <=>
                          (CarriedIn + Uploaded) * Fps100 < 200 * SampleRate
                    /\ panic' = NoPanic =>
                          Deref(LIBRETRO_INSTANCE').total_audio_samples_uploaded
                              = CarriedIn + Uploaded - ((200 * SampleRate) \div Fps100)
      ]_vars

\* a run that came in with a surplus, uploaded video once and audio, and
\* returned
C22_Witness ==
    /\ RunEnded
    /\ panic = NoPanic
    /\ Is48000At60
    /\ CarriedIn = 100
    /\ Uploaded = 1700
    /\ Deref(frame).video_refreshed = 1
    /\ Retro.total_audio_samples_uploaded = 200

=============================================================================
